---- MODULE Spec2Model ----
(***************************************************************************)
(* Hosted plugin instance manager                                          *)
(* (packages/plugin-ext/src/hosted/node/hosted-plugin-manager.ts).         *)
(*                                                                         *)
(* One manager object (AbstractHostedPluginManager, in its Node or its     *)
(* Electron variant) on the Node.js event loop.  A step of the model is    *)
(* one run-to-completion segment of the JavaScript code: the synchronous   *)
(* part of a public call, the continuation of an await, or a callback of   *)
(* a timer, a socket or the child process.  Continuations that are only    *)
(* waiting for the microtask queue run before any timer or I/O callback.   *)
(***************************************************************************)
EXTENDS Integers, Sequences, FiniteSets, TLC

(***************************************************************************)
(* Bounds of the model.                                                    *)
(***************************************************************************)
\* number of run() calls issued in one behaviour
MaxRuns == 2
\* number of terminate() calls whose process-tree enumeration is in flight
MaxTerm == 1
\* depth of the process tree below a hosted child (1 = children only)
TreeDepth == 2

(***************************************************************************)
(* Program constants.                                                      *)
(***************************************************************************)
\* for (let i = 0; i < 10 && !isReady; i++)
MaxAttempts == 10
\* port = 3030
DefaultPort == 3030
\* port < 1
MinPort == 1
\* port > 65535
MaxPort == 65535

Runs == 1..MaxRuns

\* An optional value: <<>> is undefined, <<v>> is the value v.
Undefined == <<>>
Some(v) == <<v>>

\* the port arguments a caller passes to run()
PortArgs == {Undefined, Some(-1), Some(0), Some(4000), Some(MaxPort + 1)}
\* the locations a caller passes to run()
Locations == {[scheme |-> "file", path |-> "/p1"],
              [scheme |-> "http", path |-> "/p1"]}
\* The manager under check: its class, process.env.HOSTED_PLUGIN_PORT of its
\* process (unset, or the decimal string of a number) and the registered
\* HostedPluginUriPostProcessor contributions (each appends its segment to
\* the path of the uri).
Managers == {[variant |-> "electron", envPort |-> Undefined, processors |-> <<>>],
             [variant |-> "node", envPort |-> Undefined, processors |-> <<"a", "b">>]}

VARIABLES
    variant,               \* "node": NodeHostedPluginRunner, "electron": ElectronNodeHostedPluginRunner
    envPort,               \* process.env.HOSTED_PLUGIN_PORT
    uriPostProcessors,     \* uriPostProcessors.getContributions()
    isInstanceRunnig,      \* this.isInstanceRunnig
    hostedInstanceProcess, \* this.hostedInstanceProcess: 0 (undefined) or the pid of a child
    instanceUri,           \* this.instanceUri: NoUri (undefined) or a uri
    port,                  \* this.port
    processEnv,            \* PROCESS_OPTIONS.env, shared by every run()
    run,                   \* the run() calls in flight: position and live locals
    child,                 \* the child processes, one per run() that spawned
    term,                  \* pids of the terminate() calls waiting for ps-tree
    timers,                \* the armed startup timers (run numbers), in arming order
    last                   \* what the latest step did that its caller or the OS can see

vars == <<variant, envPort, uriPostProcessors, isInstanceRunnig, hostedInstanceProcess,
          instanceUri, port, processEnv, run, child, term, timers, last>>

config == <<variant, envPort, uriPostProcessors>>
fields == <<isInstanceRunnig, hostedInstanceProcess, instanceUri, port>>

(***************************************************************************)
(* Processes.  The child spawned by run number r has pid Pid(r); below it  *)
(* hangs a chain of descendants (yarn -> theia -> backend ...).            *)
(***************************************************************************)
Pid(r) == 10 * r
RunOf(pid) == pid \div 10

\* the rows (PPID, PID) that `ps` lists, in pid order
ProcessTable ==
    [i \in 1..(MaxRuns * TreeDepth) |->
        LET r == ((i - 1) \div TreeDepth) + 1
            k == ((i - 1) % TreeDepth) + 1
        IN  [PPID |-> Pid(r) + k - 1, PID |-> Pid(r) + k]]

\* ps-tree: one pass over the rows, collecting every row whose parent is the
\* root or an already collected process; the root itself is not collected
RECURSIVE psTree(_, _, _)
psTree(rows, parents, children) ==
    IF rows = <<>> THEN children
    ELSE IF Head(rows).PPID \in parents
         THEN psTree(Tail(rows), parents \cup {Head(rows).PID}, children \cup {Head(rows).PID})
         ELSE psTree(Tail(rows), parents, children)

processTree(pid) == psTree(ProcessTable, {pid}, {})

\* the whole process tree rooted at pid
Tree(pid) == {pid} \cup {Pid(RunOf(pid)) + k : k \in 1..TreeDepth}

(***************************************************************************)
(* Initial state: the object after its constructor.                        *)
(***************************************************************************)
\* a uri: the address the instance listens on and the segments of its path;
\* NoUri stands for undefined
NoUri == [addr |-> 0, path |-> <<>>]

\* the frame of a run() call.  pc: "new" (not issued), "cmd", "probe1",
\* "wait", "probe2" (inside getStartCommand), "starting", "postproc",
\* "ensure", "done" (settled).  A local is kept while the code can still
\* read it and cleared afterwards.
\* probes, waits: the isPortFree calls and the one-second waits of validatePort.
\* gets, isReady, loopDone: the loop of ensureUriAvailable; gets is its GET
\* count while no response has come, isReady is true from the response until
\* the loop reads it and ends.
NewRun == [pc |-> "new", path |-> "", portArg |-> Undefined, cmdPort |-> Undefined,
           probes |-> 0, waits |-> 0,
           err |-> "", uri |-> NoUri, started |-> FALSE, gets |-> 0, isReady |-> FALSE,
           loopDone |-> FALSE]

\* status: "none" (not spawned), "alive", "killed" (kill() was called on it,
\* no exit event yet), "gone" (exited, or could not be spawned)
\* PROCESS_OPTIONS.env once the module is loaded: a copy of process.env with
\* ELECTRON_RUN_AS_NODE deleted; one object, shared by every run() call of
\* every manager of the process
ProcessOptionsEnv == [HOSTED_PLUGIN |-> "", THEIA_PLUGINS |-> "inherited",
                      ELECTRON_RUN_AS_NODE |-> "absent"]

NoChild == [status |-> "none", env |-> ProcessOptionsEnv,
            listener |-> FALSE]

\* What <location>/package.json holds. file: "none" (no such file),
\* "malformed" (a file that require() cannot load) or "json"; theiaPlugin:
\* the value of that key, "absent", "null" or "object"; frontend, backend: the
\* entries of the object, absent, the empty string or a file name.
PluginEntries == {Undefined, Some(""), Some("main.js")}
NoManifest == [file |-> "none", theiaPlugin |-> "absent",
               frontend |-> Undefined, backend |-> Undefined]
Manifests ==
    {NoManifest, [NoManifest EXCEPT !.file = "malformed"]}
    \cup {[NoManifest EXCEPT !.file = "json", !.theiaPlugin = k] : k \in {"absent", "null"}}
    \cup {[file |-> "json", theiaPlugin |-> "object", frontend |-> f, backend |-> b] :
             f \in PluginEntries, b \in PluginEntries}

\* op: the operation ("run", "terminate", "getInstanceURI", "spawn", "kill",
\* or "" for a step nobody sees), run: the run() call it belongs to, res: its
\* outcome, val: the uri returned, pids: the processes signalled, scheme: the
\* scheme of the location a run() call was issued with, manifest: what an
\* isPluginValid() call found at <location>/package.json
Quiet == [op |-> "", run |-> 0, res |-> "", val |-> NoUri, pids |-> {}, scheme |-> "",
          manifest |-> NoManifest]

InitOf(managers) ==
    /\ \E m \in managers : /\ variant = m.variant
                            /\ envPort = m.envPort
                            /\ uriPostProcessors = m.processors
    /\ isInstanceRunnig = FALSE
    /\ hostedInstanceProcess = 0
    /\ instanceUri = NoUri
    /\ port = Undefined
    /\ processEnv = ProcessOptionsEnv
    /\ run = [r \in Runs |-> NewRun]
    /\ child = [r \in Runs |-> NoChild]
    /\ term = <<>>
    /\ timers = <<>>
    /\ last = Quiet

Init == InitOf(Managers)

isRunning == isInstanceRunnig

\* a settled call: its frame is gone, `started` stays for the startup timer
Settled(r) == [NewRun EXCEPT !.pc = "done", !.started = run[r].started]

(***************************************************************************)
(* run(pluginUri, port): the synchronous part, up to the first await.      *)
(***************************************************************************)
\* if (port): undefined and 0 are falsy
Truthy(p) == p # Undefined /\ p[1] # 0

\* NodeHostedPluginRunner.getStartCommand: if (!port) take HOSTED_PLUGIN_PORT
\* or 3030; the Electron variant inherits getStartCommand unchanged
defaultedPort(p) ==
    IF variant = "node" /\ ~Truthy(p)
    THEN (IF envPort # Undefined THEN envPort ELSE Some(DefaultPort))
    ELSE p

\* validatePort: if (port < 1 || port > 65535) throw
portIncorrect(n) == n < MinPort \/ n > MaxPort

\* run() without its isInstanceRunnig guard
runRejectionUnguarded(loc) ==
    IF loc.scheme # "file" THEN "UnsupportedLocation" ELSE ""

\* run() without the check of the scheme
runRejectionAnyScheme(loc) ==
    IF isInstanceRunnig THEN "AlreadyRunning" ELSE ""

\* the guards at the top of run(): the error thrown, or "" when it goes on
runRejection(loc) ==
    IF isInstanceRunnig THEN "AlreadyRunning"
    ELSE IF loc.scheme # "file" THEN "UnsupportedLocation"
    ELSE ""

\* the run() calls are numbered in the order they are issued
NextRun(r) == run[r].pc = "new" /\ \A q \in Runs : q < r => run[q].pc # "new"

\* continuations waiting only for the microtask queue
syncPostProcess == variant = "electron" \/ uriPostProcessors = <<>>
MicrotaskPending ==
    \E r \in Runs : \/ run[r].pc = "cmd"
                    \/ run[r].pc = "postproc" /\ syncPostProcess

RunCall(loc, p) ==
    \E r \in Runs :
        /\ NextRun(r)
        /\ LET rej == runRejection(loc)
               q   == defaultedPort(p)
           IN  IF rej # ""
               THEN /\ run' = [run EXCEPT ![r] = Settled(r)]
                    /\ last' = [Quiet EXCEPT !.op = "run", !.run = r, !.res = rej,
                                             !.scheme = loc.scheme]
                    /\ UNCHANGED processEnv
               ELSE /\ processEnv' = [processEnv EXCEPT !.HOSTED_PLUGIN = loc.path,
                                                         !.THEIA_PLUGINS = ""]
                    /\ last' = [Quiet EXCEPT !.op = "run", !.run = r, !.res = "pending",
                                             !.scheme = loc.scheme]
                    /\ run' = [run EXCEPT
                                 ![r].path = loc.path,
                                 ![r].portArg = p,
                                 ![r].cmdPort = IF Truthy(q) THEN q ELSE Undefined,
                                 ![r].err = IF Truthy(q) /\ portIncorrect(q[1])
                                            THEN "InvalidPort" ELSE "",
                                 ![r].probes = IF Truthy(q) /\ ~portIncorrect(q[1])
                                               THEN 1 ELSE 0,
                                 ![r].pc = IF Truthy(q) /\ ~portIncorrect(q[1])
                                           THEN "probe1" ELSE "cmd"]
        /\ UNCHANGED <<config, fields, child, term, timers>>

(***************************************************************************)
(* runHostedPluginTheiaInstance(command, options): sets the flag, spawns   *)
(* the child, registers the handlers and arms the startup timer.           *)
(***************************************************************************)
runHostedPluginTheiaInstance(r) ==
    /\ isInstanceRunnig' = TRUE
    /\ hostedInstanceProcess' = Pid(r)
    /\ child' = [child EXCEPT ![r] = [status |-> "alive", env |-> processEnv,
                                      listener |-> TRUE]]
    /\ timers' = Append(timers, r)
    /\ run' = [run EXCEPT ![r] = [NewRun EXCEPT !.pc = "starting"]]
    /\ last' = [Quiet EXCEPT !.op = "spawn", !.run = r]

\* the rejection of a run() call
Reject(r, e) ==
    /\ run' = [run EXCEPT ![r] = Settled(r)]
    /\ last' = [Quiet EXCEPT !.op = "run", !.run = r, !.res = e]

\* run() resumes after `await this.getStartCommand(port)` when no port was
\* probed: the command has no --port, or validatePort has thrown
ResumeCommand(r) ==
    /\ run[r].pc = "cmd"
    /\ IF run[r].err # ""
       THEN /\ Reject(r, run[r].err)
            /\ UNCHANGED <<isInstanceRunnig, hostedInstanceProcess, child, timers>>
       ELSE runHostedPluginTheiaInstance(r)
    /\ UNCHANGED <<config, instanceUri, port, processEnv, term>>

\* validatePort without its second probe: a bound port is rejected at once
ProbePortNoRetry(r, free) ==
    /\ ~MicrotaskPending
    /\ run[r].pc = "probe1"
    /\ IF free
       THEN /\ port' = run[r].cmdPort
            /\ runHostedPluginTheiaInstance(r)
       ELSE /\ Reject(r, "PortInUse")
            /\ UNCHANGED <<isInstanceRunnig, hostedInstanceProcess, child, timers, port>>
    /\ UNCHANGED <<config, instanceUri, processEnv, term>>

\* isPortFree answers the first probe of validatePort
ProbePort(r, free) ==
    /\ ~MicrotaskPending
    /\ run[r].pc = "probe1"
    /\ IF free
       THEN /\ port' = run[r].cmdPort
            /\ runHostedPluginTheiaInstance(r)
       ELSE /\ run' = [run EXCEPT ![r].pc = "wait", ![r].waits = @ + 1]
            /\ last' = Quiet
            /\ UNCHANGED <<isInstanceRunnig, hostedInstanceProcess, child, timers, port>>
    /\ UNCHANGED <<config, instanceUri, processEnv, term>>

\* the one second of validatePort is over: the port is probed again
RetryProbe(r) ==
    /\ ~MicrotaskPending
    /\ run[r].pc = "wait"
    /\ run' = [run EXCEPT ![r].pc = "probe2", ![r].probes = @ + 1]
    /\ last' = Quiet
    /\ UNCHANGED <<config, fields, processEnv, child, term, timers>>

\* isPortFree answers the second probe
ProbePortAgain(r, free) ==
    /\ ~MicrotaskPending
    /\ run[r].pc = "probe2"
    /\ IF free
       THEN /\ port' = run[r].cmdPort
            /\ runHostedPluginTheiaInstance(r)
       ELSE /\ Reject(r, "PortInUse")
            /\ UNCHANGED <<isInstanceRunnig, hostedInstanceProcess, child, timers, port>>
    /\ UNCHANGED <<config, instanceUri, processEnv, term>>

(***************************************************************************)
(* The callbacks registered by runHostedPluginTheiaInstance.               *)
(***************************************************************************)
\* a chunk of the child's stdout: it announces the listening address or not
Lines(r) == {[listening |-> TRUE, addr |-> r], [listening |-> FALSE, addr |-> r]}

\* THEIA_INSTANCE_REGEX.exec(line): match[1] as <<address>>, or <<>> for null
theiaInstanceRegex(line) == IF line.listening THEN Some(line.addr) ELSE Undefined

\* outputListener, the 'data' listener of the child's stdout
ChildOutput(r, line) ==
    /\ ~MicrotaskPending
    /\ child[r].status \in {"alive", "killed"}
    /\ child[r].listener
    /\ LET match == theiaInstanceRegex(line)
       IN  IF match # Undefined
           THEN /\ child' = [child EXCEPT ![r].listener = FALSE]
                /\ run' = [run EXCEPT
                             ![r].started = TRUE,
                             ![r].uri = IF run[r].pc = "starting"
                                        THEN [addr |-> match[1], path |-> <<>>]
                                        ELSE @,
                             ![r].pc = IF @ = "starting" THEN "postproc" ELSE @]
           ELSE UNCHANGED <<child, run>>
    /\ last' = Quiet
    /\ UNCHANGED <<config, fields, processEnv, term, timers>>

\* a child whose exit nobody listens to
ChildExitUnheard(r) ==
    /\ ~MicrotaskPending
    /\ child[r].status \in {"alive", "killed"}
    /\ child' = [child EXCEPT ![r].status = "gone"]
    /\ last' = Quiet
    /\ UNCHANGED <<config, fields, processEnv, run, term, timers>>

\* the 'exit' handler: () => { this.isInstanceRunnig = false; }
ChildExit(r) ==
    /\ ~MicrotaskPending
    /\ child[r].status \in {"alive", "killed"}
    /\ child' = [child EXCEPT ![r].status = "gone"]
    /\ isInstanceRunnig' = FALSE
    /\ last' = Quiet
    /\ UNCHANGED <<config, hostedInstanceProcess, instanceUri, port, processEnv, run,
                   term, timers>>

\* the 'error' handler (the process could not be spawned)
ChildError(r) ==
    /\ ~MicrotaskPending
    /\ child[r].status = "alive"
    /\ child' = [child EXCEPT ![r].status = "gone"]
    /\ isInstanceRunnig' = FALSE
    /\ last' = Quiet
    /\ UNCHANGED <<config, hostedInstanceProcess, instanceUri, port, processEnv, run,
                   term, timers>>

\* the process that the startup timer of run r kills
timerTarget(r) == hostedInstanceProcess

\* ChildProcess.kill() on the process pid
kill(pid) == [r \in Runs |-> IF Pid(r) = pid /\ child[r].status = "alive"
                             THEN [child[r] EXCEPT !.status = "killed"]
                             ELSE child[r]]

\* the setTimeout callback, HOSTED_INSTANCE_START_TIMEOUT_MS after the spawn
StartupTimeout ==
    /\ ~MicrotaskPending
    /\ timers # <<>>
    /\ LET r == Head(timers)
       IN  /\ timers' = Tail(timers)
           /\ IF ~run[r].started
              THEN /\ child' = kill(timerTarget(r))
                   /\ isInstanceRunnig' = FALSE
                   /\ run' = [run EXCEPT ![r] = Settled(r)]
                   /\ last' = [Quiet EXCEPT !.op = "run", !.run = r, !.res = "Timeout",
                                            !.pids = {timerTarget(r)}]
              ELSE /\ last' = Quiet
                   /\ UNCHANGED <<isInstanceRunnig, run, child>>
    /\ UNCHANGED <<config, hostedInstanceProcess, instanceUri, port, processEnv, term>>

(***************************************************************************)
(* postProcessInstanceUri and ensureUriAvailable.                          *)
(***************************************************************************)
\* a HostedPluginUriPostProcessor: appends its segment to the path
processUri(p, uri) == [uri EXCEPT !.path = Append(@, p)]

\* for (const uriPostProcessor of ...) uri = await uriPostProcessor.processUri(uri)
RECURSIVE postProcessInstanceUri(_, _)
postProcessInstanceUri(uri, procs) ==
    IF procs = <<>> THEN uri
    ELSE postProcessInstanceUri(processUri(Head(procs), uri), Tail(procs))

\* run() resumes with the post-processed uri, stores it and starts
\* ensureUriAvailable, which issues the first GET; or a processor failed
PostProcess(r, ok) ==
    /\ run[r].pc = "postproc"
    /\ ok \/ ~syncPostProcess
    /\ IF ok
       THEN /\ instanceUri' = postProcessInstanceUri(run[r].uri, uriPostProcessors)
            /\ run' = [run EXCEPT ![r].pc = "ensure", ![r].uri = NoUri, ![r].gets = 1]
            /\ last' = Quiet
       ELSE /\ Reject(r, "PostProcessor")
            /\ UNCHANGED instanceUri
    /\ UNCHANGED <<config, isInstanceRunnig, hostedInstanceProcess, port, processEnv, child,
                   term, timers>>

\* ensureUriAvailable when the loop ends with isReady false: the throw is
\* inside the async executor, so the promise that run() awaits stays pending
loopExhausted(r) == [run[r] EXCEPT !.loopDone = TRUE]

\* the loop of ensureUriAvailable testing `i < 10` only
PollTimerUntilTen(r) ==
    /\ ~MicrotaskPending
    /\ (run[r].pc = "ensure" /\ ~run[r].loopDone) \/ run[r].isReady
    /\ run' = [run EXCEPT ![r] = IF run[r].gets < MaxAttempts
                                 THEN [run[r] EXCEPT !.gets = @ + 1]
                                 ELSE [loopExhausted(r) EXCEPT !.isReady = FALSE]]
    /\ last' = Quiet
    /\ UNCHANGED <<config, fields, processEnv, child, term, timers>>

\* one second has passed in the loop of ensureUriAvailable: it tests
\* `i < 10 && !isReady`, and issues the next GET or ends
PollTimer(r) ==
    /\ ~MicrotaskPending
    /\ (run[r].pc = "ensure" /\ ~run[r].loopDone) \/ run[r].isReady
    /\ run' = [run EXCEPT ![r] = IF run[r].isReady
                                 THEN [run[r] EXCEPT !.isReady = FALSE]
                                 ELSE IF run[r].gets < MaxAttempts
                                 THEN [run[r] EXCEPT !.gets = @ + 1]
                                 ELSE loopExhausted(r)]
    /\ last' = Quiet
    /\ UNCHANGED <<config, fields, processEnv, child, term, timers>>

\* the callback of http.get: the first response sets isReady, resolves the
\* promise, and run() returns this.instanceUri
HttpResponse(r) ==
    /\ ~MicrotaskPending
    /\ run[r].pc = "ensure"
    /\ run[r].gets > 0
    /\ run' = [run EXCEPT ![r] = [Settled(r) EXCEPT !.isReady = ~run[r].loopDone]]
    /\ last' = [Quiet EXCEPT !.op = "run", !.run = r, !.res = "resolved", !.val = instanceUri]
    /\ UNCHANGED <<config, fields, processEnv, child, term, timers>>

(***************************************************************************)
(* terminate() and getInstanceURI().                                       *)
(***************************************************************************)
\* terminate() and getInstanceURI() testing the process handle, not the flag
notRunningByHandle == hostedInstanceProcess = 0

\* the guard of terminate() and of getInstanceURI()
notRunning == ~isInstanceRunnig

\* the pids on the command line of `kill`
killList(pid) == processTree(pid)

Terminate ==
    /\ IF notRunning
       THEN /\ last' = [Quiet EXCEPT !.op = "terminate", !.res = "NotRunning"]
            /\ UNCHANGED term
       ELSE /\ Len(term) < MaxTerm
            /\ term' = Append(term, hostedInstanceProcess)
            /\ last' = [Quiet EXCEPT !.op = "terminate", !.res = "pending"]
    /\ UNCHANGED <<config, fields, processEnv, run, child, timers>>

\* the callback of processTree(pid, ...): with an error there is no list of
\* children and children.map throws before resolve()
ProcessTreeCallback(i, err) ==
    /\ ~MicrotaskPending
    /\ i \in DOMAIN term
    /\ term' = SubSeq(term, 1, i - 1) \o SubSeq(term, i + 1, Len(term))
    /\ last' = IF err
               THEN [Quiet EXCEPT !.op = "terminate", !.run = RunOf(term[i]), !.res = "threw"]
               ELSE [Quiet EXCEPT !.op = "terminate", !.run = RunOf(term[i]),
                                  !.res = "resolved", !.pids = killList(term[i])]
    /\ UNCHANGED <<config, fields, processEnv, run, child, timers>>

GetInstanceURI ==
    /\ last' = IF notRunning
               THEN [Quiet EXCEPT !.op = "getInstanceURI", !.res = "NotRunning"]
               ELSE [Quiet EXCEPT !.op = "getInstanceURI", !.res = "ok", !.val = instanceUri]
    /\ UNCHANGED <<config, fields, processEnv, run, child, term, timers>>

(***************************************************************************)
(* The specification.                                                      *)
(***************************************************************************)
(***************************************************************************)
(* isPluginValid(uri)                                                      *)
(***************************************************************************)
\* the truth value JavaScript gives an entry of the manifest
truthyEntry(v) == v # Undefined /\ v[1] # ""

\* isPluginValid that looks at the frontend entry only
isPluginValidFrontendOnly(m) ==
    IF m.file = "none" THEN "false"
    ELSE IF m.file = "malformed" THEN "threw"
    ELSE IF m.theiaPlugin = "object" /\ truthyEntry(m.frontend)
         THEN "true" ELSE "false"

\* fs.existsSync, require, and the test of the theiaPlugin entries
isPluginValid(m) ==
    IF m.file = "none" THEN "false"
    ELSE IF m.file = "malformed" THEN "threw"
    ELSE IF m.theiaPlugin = "object" /\ (truthyEntry(m.frontend) \/ truthyEntry(m.backend))
         THEN "true" ELSE "false"

IsPluginValid(m) ==
    /\ last' = [Quiet EXCEPT !.op = "isPluginValid", !.res = isPluginValid(m),
                             !.manifest = m]
    /\ UNCHANGED <<config, fields, processEnv, run, child, term, timers>>

NextOf(locations, ports) ==
    \/ \E loc \in locations, p \in ports : RunCall(loc, p)
    \/ \E r \in Runs : ResumeCommand(r)
    \/ \E r \in Runs, free \in BOOLEAN : ProbePort(r, free)
    \/ \E r \in Runs : RetryProbe(r)
    \/ \E r \in Runs, free \in BOOLEAN : ProbePortAgain(r, free)
    \/ \E r \in Runs : \E line \in Lines(r) : ChildOutput(r, line)
    \/ \E r \in Runs : ChildExit(r)
    \/ \E r \in Runs : ChildError(r)
    \/ StartupTimeout
    \/ \E r \in Runs, ok \in BOOLEAN : PostProcess(r, ok)
    \/ \E r \in Runs : PollTimer(r)
    \/ \E r \in Runs : HttpResponse(r)
    \/ Terminate
    \/ \E i \in 1..MaxTerm, err \in BOOLEAN : ProcessTreeCallback(i, err)
    \/ GetInstanceURI

Next == NextOf(Locations, PortArgs)

Spec == Init /\ [][Next]_vars

\* isPluginValid() calls for every manifest, between the steps of a manager
\* that is asked to run one hosted instance
FileLocations == {loc \in Locations : loc.scheme = "file"}
ValidPortArgs == {Undefined, Some(4000)}
OneRunCall == \A r \in Runs : r > 1 => run'[r].pc = "new"
NextValid ==
    \/ NextOf(FileLocations, ValidPortArgs) /\ OneRunCall
    \/ \E m \in Manifests : IsPluginValid(m)

SpecValid == Init /\ [][NextValid]_vars

\* run() calls for two plugins; the environment is built in the abstract
\* class, the same way for both variants
TwoPlugins == {[scheme |-> "file", path |-> "/p1"], [scheme |-> "file", path |-> "/p2"]}
InitEnv == InitOf({m \in Managers : m.variant = "electron"})
NextEnv == NextOf(TwoPlugins, ValidPortArgs)

SpecEnv == InitEnv /\ [][NextEnv]_vars

(***************************************************************************)
(* Properties.                                                             *)
(***************************************************************************)
\* the hosted children that are starting or running: spawned, not exited
\* and not killed
Hosted == {r \in Runs : child[r].status = "alive"}

\* the step issues a run() call (its synchronous part runs)
RunIssued(r) == run[r].pc = "new" /\ run'[r].pc # "new"

\* the run() call r is inside getStartCommand
BuildingCommand(r) == run[r].pc \in {"cmd", "probe1", "wait", "probe2"}

\* C1: at every reachable state at most one hosted child process is starting
\* or running, also when run() calls overlap.
AtMostOneHostedProcess == Cardinality(Hosted) <= 1

\* C2: a run() call issued while isRunning() is true fails with the
\* already-running error, spawns nothing and leaves the process handle, the
\* cached endpoint and the running flag as they were.
RunWhileRunningRejected ==
    [][\A r \in Runs :
         (isRunning /\ RunIssued(r)) =>
            /\ last'.op = "run" /\ last'.run = r
            /\ last'.res = "AlreadyRunning"
            /\ run'[r].pc = "done"
            /\ UNCHANGED <<isInstanceRunnig, hostedInstanceProcess, instanceUri, port,
                           processEnv, child, timers, term>>]_vars

RunWhileRunningWitness ==
    /\ last.op = "run"
    /\ last.res = "AlreadyRunning"
    /\ isRunning
    /\ Cardinality(Hosted) = 1

\* C3: isRunning() is false before any run(), and true at the moment a run()
\* call resolves with an endpoint.
RunningWhenRunResolves ==
    /\ (\A r \in Runs : run[r].pc = "new") => ~isRunning
    /\ (last.op = "run" /\ last.res = "resolved") => isRunning

\* C4: when a terminate() call made while running resolves, isRunning() is
\* false.
IdleWhenTerminateResolves ==
    (last.op = "terminate" /\ last.res = "resolved") => ~isRunning

\* C5: terminate() signals every process of the tree rooted at the hosted
\* child: the child itself and all its descendants, in one batch.
TerminateSignalsWholeTree ==
    (last.op = "terminate" /\ last.res = "resolved") => Tree(Pid(last.run)) \subseteq last.pids

\* C6: a run() call with a port outside [1, 65535] (0 and negative values
\* included, in both variants) that passes the guards of run() fails with the
\* invalid-port error, spawns no child and leaves the running flag alone.
portOutOfRange(p) == p # Undefined /\ (p[1] < MinPort \/ p[1] > MaxPort)

PortOutOfRangeRejected ==
    [][\A r \in Runs :
         (BuildingCommand(r) /\ portOutOfRange(run[r].portArg) /\ run'[r] # run[r]) =>
            /\ child'[r].status = "none"
            /\ isInstanceRunnig' = isInstanceRunnig
            /\ run'[r].pc = "done" => last'.res = "InvalidPort"]_vars

\* C7: when the startup timer of a run() call fires and its child has printed
\* no readiness line, that child is killed, isRunning() is false and the call
\* rejects with the timeout error.
TimeoutKillsChild ==
    (last.op = "run" /\ last.res = "Timeout") =>
        /\ child[last.run].status # "alive"
        /\ ~isRunning
        /\ run[last.run].pc = "done"

\* C8: when the readiness line was matched and none of the 10 GET attempts
\* got a response, the run() call is settled (rejected), not left pending.
ExhaustedPollSettles ==
    \A r \in Runs : run[r].loopDone => run[r].pc # "ensure"

\* C9: while isRunning() is false, terminate() and getInstanceURI() fail
\* with the not-running error, signal no process and change no state.
CallIssued ==
    /\ last'.op \in {"terminate", "getInstanceURI"}
    /\ last'.res \in {"NotRunning", "pending", "ok"}

NotRunningCallsFail ==
    [][(~isRunning /\ CallIssued) =>
          /\ last'.res = "NotRunning"
          /\ last'.pids = {}
          /\ last'.val = NoUri
          /\ UNCHANGED <<fields, processEnv, run, child, term, timers>>]_vars

NotRunningCallsWitness ==
    /\ last.op = "terminate"
    /\ last.res = "NotRunning"
    /\ ~isRunning
    /\ \E r \in Runs : child[r].status = "gone"

\* C10: a value that getInstanceURI() returns is the post-processed endpoint
\* of the instance held by the manager: not undefined, and not the endpoint
\* of an earlier instance.
ReturnedUriIsCurrent ==
    (last.op = "getInstanceURI" /\ last.res = "ok") =>
        /\ last.val # NoUri
        /\ last.val.addr = RunOf(hostedInstanceProcess)

\* C11: port validation of a run() call probes the port at most twice with
\* one wait of a second between the probes. The call fails with the port in
\* use error only after two probes and one wait, a step of validation that does
\* not end it spawns no child and leaves the fields alone, and the answer to
\* the second probe either rejects the call or lets it spawn with the port.
Validating(r) == run[r].pc \in {"probe1", "wait", "probe2"}

PortInUseAfterTwoProbes ==
    [][\A r \in Runs :
          /\ (last'.op = "run" /\ last'.run = r /\ last'.res = "PortInUse") =>
                /\ run[r].pc = "probe2"
                /\ run[r].probes = 2
                /\ run[r].waits = 1
          /\ (Validating(r) /\ run'[r] # run[r] /\ run'[r].pc # "starting") =>
                /\ run'[r].probes <= 2
                /\ run'[r].waits <= 1
                /\ child'[r].status = "none"
                /\ UNCHANGED <<fields, child, timers>>
          /\ (run[r].pc = "probe2" /\ run'[r] # run[r]) =>
                \/ last'.op = "run" /\ last'.run = r /\ last'.res = "PortInUse"
                \/ /\ run'[r].pc = "starting"
                   /\ child'[r].status = "alive"
                   /\ port' = run[r].cmdPort]_vars

PortInUseWitness ==
    /\ last.op = "run"
    /\ last.res = "PortInUse"
    /\ ~isRunning
    /\ \A r \in Runs : child[r].status = "none"

\* C12: the endpoint that run() resolves with is the address printed by the
\* child of that call, extended by every registered post-processor once and
\* in registration order in the Node variant, and unchanged in the Electron
\* variant or without post-processors.
ResolvedUriIsOwnProcessed ==
    (last.op = "run" /\ last.res = "resolved") =>
        last.val = [addr |-> last.run,
                    path |-> IF variant = "node" THEN uriPostProcessors ELSE <<>>]

\* C13: a run() call with a location whose scheme is not "file", issued while
\* isRunning() is false, fails at once with the unsupported-location error:
\* no command is built, no port is probed, no child is spawned and no field,
\* environment entry or timer changes.
UnsupportedLocationRejected ==
    [][\A r \in Runs :
          (RunIssued(r) /\ ~isRunning /\ last'.scheme # "file") =>
              /\ last'.op = "run" /\ last'.run = r
              /\ last'.res = "UnsupportedLocation"
              /\ run'[r].pc = "done"
              /\ run'[r].probes = 0 /\ run'[r].cmdPort = Undefined
              /\ child'[r].status = "none"
              /\ ~isRunning'
              /\ UNCHANGED <<fields, processEnv, child, term, timers>>]_vars

UnsupportedLocationWitness ==
    /\ last.op = "run"
    /\ last.res = "UnsupportedLocation"
    /\ last.scheme = "http"
    /\ ~isRunning
    /\ child[last.run].status = "none"

\* C14 as stated: isPluginValid() returns true exactly when the manifest
\* exists and its theiaPlugin object contains a frontend or a backend entry,
\* returns false when the manifest is missing or has neither entry, and
\* changes no state of the manager.
hasPluginEntry(m) ==
    /\ m.file = "json"
    /\ m.theiaPlugin = "object"
    /\ (m.frontend # Undefined \/ m.backend # Undefined)

hasTruthyPluginEntry(m) ==
    /\ m.file = "json"
    /\ m.theiaPlugin = "object"
    /\ \/ (m.frontend # Undefined /\ m.frontend # Some(""))
       \/ (m.backend # Undefined /\ m.backend # Some(""))

ExitOrErrorIdles ==
    [][\A r \in Runs :
          /\ (child[r].status \in {"alive", "killed"} /\ child'[r].status = "gone")
                => ~isRunning'
          /\ (RunIssued(r) /\ ~isRunning) => last'.res # "AlreadyRunning"]_vars

ExitOrErrorWitness ==
    /\ child[1].status = "gone"
    /\ run[1].pc = "done" /\ run[1].started
    /\ timers = <<1>>
    /\ last.op = "run" /\ last.run = 2 /\ last.res = "pending"

\* C16: the startup timer and the exit and error handlers of a run() call act
\* on the child of that call only: the timer kills no child of a later call,
\* and neither the timer nor the handlers set the flag to false while the
\* child of a later call is starting or running.
LaterChildren(r) == {q \in Runs : q > r /\ child[q].status = "alive"}

HandlersActOnOwnChild ==
    [][\A r \in Runs :
          /\ (last'.op = "run" /\ last'.res = "Timeout" /\ last'.run = r) =>
                /\ last'.pids \subseteq {Pid(r)}
                /\ \A q \in LaterChildren(r) : child'[q].status = "alive"
                /\ LaterChildren(r) # {} => isRunning' = isRunning
          /\ (child[r].status \in {"alive", "killed"} /\ child'[r].status = "gone") =>
                (LaterChildren(r) # {} => isRunning' = isRunning)]_vars

\* C17: the child that a run() call spawns gets an environment in which
\* HOSTED_PLUGIN is the path of the location of that call, THEIA_PLUGINS is
\* empty and ELECTRON_RUN_AS_NODE is absent, whatever other run() calls were
\* made before or meanwhile; and no run() call changes the environment a
\* child was launched with.
LaunchedWithOwnEnvironment ==
    [][\A r \in Runs :
          /\ (BuildingCommand(r) /\ run'[r].pc = "starting") =>
                child'[r].env = [HOSTED_PLUGIN |-> run[r].path, THEIA_PLUGINS |-> "",
                                 ELECTRON_RUN_AS_NODE |-> "absent"]
          /\ child[r].status # "none" => child'[r].env = child[r].env]_vars

\* C18: a run() call resolves only from ensureUriAvailable, with a GET
\* answered, after its child was spawned, its readiness line was seen and the
\* post-processed uri was stored, in this order; a call issues at most
\* MaxAttempts GETs, one at a time, and none once a response has come.
Resolves(r) == last'.op = "run" /\ last'.res = "resolved" /\ last'.run = r

FailedTerminateIdles ==
    (last.op = "terminate" /\ last.res = "threw") => ~isRunning

\* C20: when a run() call that has spawned a child is rejected (startup
\* timeout, failure of a post-processor), the manager is left idle:
\* isRunning() is false and the child of that call is not left alive.
SpawnedRunRejected ==
    /\ last.op = "run"
    /\ last.res \in {"Timeout", "PostProcessor"}

RejectedRunLeavesIdle ==
    SpawnedRunRejected =>
        /\ ~isRunning
        /\ child[last.run].status # "alive"

====
